---- MODULE Spec2Model ----
(***************************************************************************)
(* Model of the summarization core of doc-summarizer (src/summarizer.py):  *)
(* Summarizer._chunk_text, _prompt_and_params, _call_hf, _looks_like_echo   *)
(* and summarize.                                                           *)
(*                                                                          *)
(* Python str values are TLA+ strings; Len, SubSeq and \o act on them as    *)
(* on sequences of characters.  A character is a string of length 1.        *)
(***************************************************************************)
EXTENDS Integers, Sequences, FiniteSets, TLC

(***************************************************************************)
(* Configuration, summarizer.py:21-26.  Each value is read from the         *)
(* environment with a default; MAX_RETRIES is the default.  CHUNK_SIZE is   *)
(* the value of the CHUNK_SIZE environment variable of the modelled         *)
(* deployment (the default is 3000).  RETRY_BASE_SECONDS and TEMPERATURE    *)
(* are floats in the program and are counted here in tenths: 1.5 s and 0.1. *)
(***************************************************************************)
CHUNK_SIZE == 400
MAX_RETRIES == 3
RETRY_BASE_SECONDS == 15
TEMPERATURE == 1

(***************************************************************************)
(* Python str methods                                                       *)
(***************************************************************************)
Min(a, b) == IF a <= b THEN a ELSE b
Max(a, b) == IF a >= b THEN a ELSE b

\* s[lo-1:hi]: the characters at positions lo..hi (counted from 1), clipped
\* to the string as a Python slice is
Slice(s, lo, hi) ==
    IF Max(lo, 1) > Min(hi, Len(s)) THEN "" ELSE SubSeq(s, Max(lo, 1), Min(hi, Len(s)))

Char(s, i) == Slice(s, i, i)

\* the characters str.strip() and str.split() treat as whitespace (the
\* ASCII ones that a TLA+ string can hold)
Whitespace == {" ", "\t", "\n", "\r", "\f"}

Indices(s) == [i \in 1..Len(s) |-> i]

\* s[:n]
Take(s, n) == Slice(s, 1, n)

\* sub in s
Contains(s, sub) ==
    \E i \in 1..(Len(s) - Len(sub) + 1) : Slice(s, i, i + Len(sub) - 1) = sub

\* sep.join(parts)
RECURSIVE JoinRange(_, _, _, _)
JoinRange(sep, parts, lo, hi) ==
    IF lo > hi THEN ""
    ELSE IF lo = hi THEN parts[lo]
    ELSE LET mid == (lo + hi) \div 2
         IN  JoinRange(sep, parts, lo, mid) \o sep \o JoinRange(sep, parts, mid + 1, hi)

str_join(sep, parts) == JoinRange(sep, parts, 1, Len(parts))

\* s.split(): the maximal runs of non-whitespace characters, in order
WordStarts(s) ==
    SelectSeq(Indices(s), LAMBDA i : Char(s, i) \notin Whitespace
                                     /\ (i = 1 \/ Char(s, i - 1) \in Whitespace))

WordEnds(s) ==
    SelectSeq(Indices(s), LAMBDA i : Char(s, i) \notin Whitespace
                                     /\ (i = Len(s) \/ Char(s, i + 1) \in Whitespace))

str_split_ws(s) ==
    LET st == WordStarts(s)
        en == WordEnds(s)
    IN  [k \in 1..Len(st) |-> Slice(s, st[k], en[k])]

\* s.strip()
str_strip(s) ==
    LET st == WordStarts(s)
        en == WordEnds(s)
    IN  IF Len(st) = 0 THEN "" ELSE Slice(s, st[1], en[Len(en)])

\* s.split(sep) for a non-empty sep: the occurrences of sep are taken left
\* to right and do not overlap
RECURSIVE SplitFrom(_, _, _, _)
SplitFrom(s, sep, occ, from) ==
    IF occ = <<>> THEN <<Slice(s, from, Len(s))>>
    ELSE IF Head(occ) < from THEN SplitFrom(s, sep, Tail(occ), from)
    ELSE <<Slice(s, from, Head(occ) - 1)>>
         \o SplitFrom(s, sep, Tail(occ), Head(occ) + Len(sep))

str_split(s, sep) ==
    SplitFrom(s, sep,
              SelectSeq(Indices(s), LAMBDA i : Slice(s, i, i + Len(sep) - 1) = sep),
              1)

\* s.replace(old, new)
str_replace(s, old, new) == str_join(new, str_split(s, old))

\* s.lower(), on ASCII letters
UpperCase == "ABCDEFGHIJKLMNOPQRSTUVWXYZ"
LowerCase == "abcdefghijklmnopqrstuvwxyz"

LowerChar(c) ==
    IF \E k \in 1..26 : Char(UpperCase, k) = c
    THEN Char(LowerCase, CHOOSE k \in 1..26 : Char(UpperCase, k) = c)
    ELSE c

str_lower(s) == str_join("", [i \in 1..Len(s) |-> LowerChar(Char(s, i))])

\* str(n) for an int n >= 0
Digits == "0123456789"

RECURSIVE int_str(_)
int_str(n) ==
    IF n < 10 THEN Char(Digits, n + 1)
    ELSE int_str(n \div 10) \o Char(Digits, (n % 10) + 1)

(***************************************************************************)
(* Summarizer._chunk_text, summarizer.py:65-88                              *)
(***************************************************************************)
\* line 71: the stripped paragraphs, the empty ones dropped
Paragraphs(text) ==
    LET parts == str_split(text, "\n\n")
        stripped == [k \in 1..Len(parts) |-> str_strip(parts[k])]
    IN  SelectSeq(stripped, LAMBDA p : p # "")

\* Windows with one window more than len(p) // chunk_chars, whatever the rest
WindowsOneMore(p, chunk_chars) ==
    [k \in 1..((Len(p) \div chunk_chars) + 1) |->
        Slice(p, (k - 1) * chunk_chars + 1, k * chunk_chars)]

\* lines 82-83: p[i:i + chunk_chars] for i in range(0, len(p), chunk_chars)
Windows(p, chunk_chars) ==
    [k \in 1..((Len(p) + chunk_chars - 1) \div chunk_chars) |->
        Slice(p, (k - 1) * chunk_chars + 1, k * chunk_chars)]

\* ChunkLoop without the separator's length in the test of line 75
RECURSIVE ChunkLoopNoSeparatorLength(_, _, _, _, _)
ChunkLoopNoSeparatorLength(paragraphs, k, chunks, current, chunk_chars) ==
    IF k > Len(paragraphs) THEN [chunks |-> chunks, current |-> current]
    ELSE LET p == paragraphs[k]
         IN  IF Len(current) + Len(p) <= chunk_chars
             THEN ChunkLoopNoSeparatorLength(paragraphs, k + 1, chunks,
                                             current \o (IF current # "" THEN "\n\n" ELSE "") \o p,
                                             chunk_chars)
             ELSE LET closed == IF current # "" THEN Append(chunks, current) ELSE chunks
                  IN  IF Len(p) > chunk_chars
                      THEN ChunkLoopNoSeparatorLength(paragraphs, k + 1,
                                                      closed \o Windows(p, chunk_chars),
                                                      "", chunk_chars)
                      ELSE ChunkLoopNoSeparatorLength(paragraphs, k + 1, closed, p, chunk_chars)

\* ChunkLoop joining the paragraphs of a chunk with a single newline
RECURSIVE ChunkLoopSingleNewline(_, _, _, _, _)
ChunkLoopSingleNewline(paragraphs, k, chunks, current, chunk_chars) ==
    IF k > Len(paragraphs) THEN [chunks |-> chunks, current |-> current]
    ELSE LET p == paragraphs[k]
         IN  IF Len(current) + Len(p) + 2 <= chunk_chars
             THEN ChunkLoopSingleNewline(paragraphs, k + 1, chunks,
                                         current \o (IF current # "" THEN "\n" ELSE "") \o p,
                                         chunk_chars)
             ELSE LET closed == IF current # "" THEN Append(chunks, current) ELSE chunks
                  IN  IF Len(p) > chunk_chars
                      THEN ChunkLoopSingleNewline(paragraphs, k + 1,
                                                  closed \o Windows(p, chunk_chars),
                                                  "", chunk_chars)
                      ELSE ChunkLoopSingleNewline(paragraphs, k + 1, closed, p, chunk_chars)

\* lines 74-85: the loop over the paragraphs from the k-th on, with the
\* chunks closed so far and the running chunk
RECURSIVE ChunkLoop(_, _, _, _, _)
ChunkLoop(paragraphs, k, chunks, current, chunk_chars) ==
    IF k > Len(paragraphs) THEN [chunks |-> chunks, current |-> current]
    ELSE LET p == paragraphs[k]
         IN  IF Len(current) + Len(p) + 2 <= chunk_chars
             THEN ChunkLoop(paragraphs, k + 1, chunks,
                            current \o (IF current # "" THEN "\n\n" ELSE "") \o p,
                            chunk_chars)
             ELSE LET closed == IF current # "" THEN Append(chunks, current) ELSE chunks
                  IN  IF Len(p) > chunk_chars
                      THEN ChunkLoop(paragraphs, k + 1, closed \o Windows(p, chunk_chars),
                                     "", chunk_chars)
                      ELSE ChunkLoop(paragraphs, k + 1, closed, p, chunk_chars)

\* chunk_text without lines 86-87: the running chunk is not closed
chunk_textDropsCurrent(text, chunk_chars) ==
    IF text = "" THEN <<>>
    ELSE LET t == str_strip(str_replace(text, "\r\n", "\n"))
         IN  IF t = "" THEN <<>>
             ELSE ChunkLoop(Paragraphs(t), 1, <<>>, "", chunk_chars).chunks

chunk_text(text, chunk_chars) ==
    IF text = "" THEN <<>>
    ELSE LET t == str_strip(str_replace(text, "\r\n", "\n"))
         IN  IF t = "" THEN <<>>
             ELSE LET r == ChunkLoop(Paragraphs(t), 1, <<>>, "", chunk_chars)
                  IN  IF r.current # "" THEN Append(r.chunks, r.current) ELSE r.chunks

(***************************************************************************)
(* Summarizer._prompt_and_params, summarizer.py:91-176                      *)
(***************************************************************************)
\* IsBart without the lower()
IsBartCaseSensitive(model_id) == Contains(model_id, "bart")

\* line 95 (and line 298)
IsBart(model_id) == Contains(str_lower(model_id), "bart")

\* line 92: (style or "brief").lower()
NormStyle(style) == str_lower(IF style = "" THEN "brief" ELSE style)

\* lines 112-141: the instruction of an instruction-tuned model (the en
\* dashes of "2-4" and "4-8", "8-20" are written as hyphens)
Instruction(style) ==
    CASE style = "brief" ->
           "You are a helpful assistant. Provide a concise summary in 2-4 sentences "
           \o "that captures only the main points. Do NOT repeat the input verbatim. "
           \o "Keep it neutral and do not add new facts."
      [] style = "detailed" ->
           "You are a helpful assistant. Provide a clear, detailed summary covering key ideas, "
           \o "important details, and conclusions. Use paragraphs. Do NOT invent new facts."
      [] style = "bullets" ->
           "You are a helpful assistant. Summarize the text as 4-8 short bullet points, each 8-20 words. "
           \o "Do NOT repeat the input verbatim. Use hyphen '-' at start of each bullet."
      [] OTHER -> "Summarize the following text."

\* lines 119, 126, 133-137, 141: the one-shot example ("" for None)
Examples(style) ==
    IF style = "bullets"
    THEN "Example:\n"
         \o "Text: The city will invest in schools and public transport to improve education and reduce traffic.\n"
         \o "Summary:\n- Investment in schools announced to improve education.\n- Upgrades to public transport planned to reduce traffic.\n\n"
    ELSE ""

\* lines 118, 125, 132, 140
MaxNewTokens(style) ==
    CASE style = "brief" -> 140
      [] style = "detailed" -> 400
      [] style = "bullets" -> 220
      [] OTHER -> 200

\* lines 151-162
MaxLength(style) ==
    CASE style = "brief" -> 50
      [] style = "detailed" -> 120
      [] style = "bullets" -> 80
      [] OTHER -> 60

MinLength(style) ==
    CASE style = "brief" -> 10
      [] style = "detailed" -> 20
      [] style = "bullets" -> 15
      [] OTHER -> 10

prompt_and_params(model_id, text, style) ==
    LET st == NormStyle(style)
    IN  IF IsBart(model_id)
        THEN [prompt |-> text,
              params |-> [max_length |-> MaxLength(st), min_length |-> MinLength(st),
                          temperature |-> TEMPERATURE]]
        ELSE [prompt |-> Examples(st) \o Instruction(st) \o "\n\nText:\n" \o text
                         \o "\n\nSummary:",
              params |-> [max_new_tokens |-> MaxNewTokens(st), temperature |-> TEMPERATURE]]

(***************************************************************************)
(* Summarizer._looks_like_echo, summarizer.py:257-268                       *)
(***************************************************************************)
\* looks_like_echo without the length rule of lines 266-267
looks_like_echoNoLengthRule(input_text, output_text) ==
    IF output_text = "" THEN TRUE
    ELSE LET in_s == str_join(" ", str_split_ws(input_text))
             out_s == str_join(" ", str_split_ws(output_text))
         IN  \/ out_s = in_s
             \/ Contains(out_s, in_s)
             \/ Contains(in_s, out_s)

looks_like_echo(input_text, output_text) ==
    IF output_text = "" THEN TRUE
    ELSE LET in_s == str_join(" ", str_split_ws(input_text))
             out_s == str_join(" ", str_split_ws(output_text))
         IN  \/ out_s = in_s
             \/ Contains(out_s, in_s)
             \/ Contains(in_s, out_s)
             \/ (10 * Len(out_s) >= 9 * Len(in_s) /\ Len(in_s) > 40)

(***************************************************************************)
(* JSON values, as resp.json() yields them: a record [t, v] with t one of   *)
(* "str" (v a string), "num" (v an int), "list" (v a sequence of values),   *)
(* "dict" (v a sequence of <<key, value>> pairs, in insertion order) and    *)
(* "none" (no JSON could be decoded: line 215).                             *)
(***************************************************************************)
JStr(s) == [t |-> "str", v |-> s]
JNum(n) == [t |-> "num", v |-> n]
JList(xs) == [t |-> "list", v |-> xs]
JDict(kv) == [t |-> "dict", v |-> kv]
JNone == [t |-> "none", v |-> 0]

\* json.dumps of one character of a str
EscapeChar(c) ==
    CASE c = "\"" -> "\\\""
      [] c = "\\" -> "\\\\"
      [] c = "\n" -> "\\n"
      [] c = "\r" -> "\\r"
      [] c = "\t" -> "\\t"
      [] c = "\f" -> "\\f"
      [] OTHER -> c

JsonQuote(s) == "\"" \o str_join("", [k \in 1..Len(s) |-> EscapeChar(Char(s, k))]) \o "\""

\* json.dumps(j), with the default separators ", " and ": "
RECURSIVE json_dumps(_)
json_dumps(j) ==
    CASE j.t = "str" -> JsonQuote(j.v)
      [] j.t = "num" -> int_str(j.v)
      [] j.t = "list" ->
           "[" \o str_join(", ", [k \in 1..Len(j.v) |-> json_dumps(j.v[k])]) \o "]"
      [] j.t = "dict" ->
           "{" \o str_join(", ", [k \in 1..Len(j.v) |->
                                    JsonQuote(j.v[k][1]) \o ": " \o json_dumps(j.v[k][2])])
           \o "}"
      [] OTHER -> "null"

\* key in d, d[key] for a dict d
HasKey(d, key) == \E k \in 1..Len(d.v) : d.v[k][1] = key
GetKey(d, key) == d.v[CHOOSE k \in 1..Len(d.v) : d.v[k][1] = key][2]

(***************************************************************************)
(* Summarizer._call_hf, summarizer.py:179-254: the pure parts               *)
(***************************************************************************)
\* lines 183-186
urls(model_id) == <<"https://api-inference.huggingface.co/models/" \o model_id>>

\* lines 222 and 231: the keys looked up, in priority order
ResponseKeys == <<"summary_text", "generated_text", "text", "result", "output">>

\* the first of ResponseKeys that d holds (0 if none)
FirstKey(d) ==
    IF \E k \in 1..Len(ResponseKeys) : HasKey(d, ResponseKeys[k])
    THEN CHOOSE k \in 1..Len(ResponseKeys) :
            /\ HasKey(d, ResponseKeys[k])
            /\ \A m \in 1..(k - 1) : ~HasKey(d, ResponseKeys[m])
    ELSE 0

\* A Python value handed back by _call_hf: its type and, for a str, the
\* string itself (for any other type, its JSON text).
PyStr(s) == [type |-> "str", val |-> s]

\* lines 224 and 233: x if isinstance(x, str) else json.dumps(x)
StrOrDumps(x) == IF x.t = "str" THEN PyStr(x.v) ELSE PyStr(json_dumps(x))

\* lines 211-238: the value returned for a response below status 400 with
\* decoded JSON data (JNone if undecodable) and body text txt
ParseResponse(data, txt) ==
    IF data.t = "list" /\ Len(data.v) > 0
    THEN LET first == data.v[1]
         IN  IF first.t = "dict" /\ FirstKey(first) # 0
             THEN StrOrDumps(GetKey(first, ResponseKeys[FirstKey(first)]))
             ELSE IF first.t = "str" THEN PyStr(first.v)
             ELSE PyStr(json_dumps(first))
    ELSE IF data.t = "dict"
    THEN IF FirstKey(data) # 0
         THEN StrOrDumps(GetKey(data, ResponseKeys[FirstKey(data)]))
         ELSE PyStr(json_dumps(data))
    ELSE PyStr(txt)

\* Classify with the auth failures taken for transient ones
ClassifyAuthTransient(status) ==
    CASE status = 410 -> "gone"
      [] status \in {401, 403, 503} -> "transient"
      [] status = 404 -> "not_found"
      [] status >= 400 -> "error"
      [] OTHER -> "ok"

\* lines 197-209: what a status code leads to
Classify(status) ==
    CASE status = 410 -> "gone"
      [] status \in {401, 403} -> "auth"
      [] status = 503 -> "transient"
      [] status = 404 -> "not_found"
      [] status >= 400 -> "error"
      [] OTHER -> "ok"

\* Handler without the except Exception clause of line 247
HandlerNoCatchAll(type) ==
    CASE type = "RuntimeError" -> "runtime"
      [] OTHER -> "reraise"

\* lines 239, 245, 247: the except clause that catches an exception type.
\* RuntimeError is the only subclass of RuntimeError that occurs here; the
\* transport exceptions of requests derive from IOError.
Handler(type) ==
    CASE type = "RuntimeError" -> "runtime"
      [] type = "SummarizationError" -> "reraise"
      [] OTHER -> "exception"

\* MayRetry off by one
MayRetryOneMore(attempt) == attempt <= MAX_RETRIES

\* lines 241 and 249
MayRetry(attempt) == attempt < MAX_RETRIES

\* Backoff without the scaling by the attempt number
BackoffFlat(attempt) == RETRY_BASE_SECONDS

\* lines 242 and 250: the sleep after failed attempt n, in tenths of a second
Backoff(attempt) == RETRY_BASE_SECONDS * attempt

\* lines 244 and 252: the message of the error that ends the retries
ExhaustedMessage(exc) ==
    IF Handler(exc.type) = "runtime"
    THEN "Model loading / transient error: " \o exc.msg
    ELSE "Hugging Face request failed: " \o exc.msg

\* lines 199, 201, 209, 254
GoneMessage == "HF 410: legacy inference endpoint removed; use Router."
AuthMessage(status, txt) == "HF auth error " \o int_str(status) \o ": " \o Take(txt, 500)
ApiErrorMessage(status, txt) == "HF API error " \o int_str(status) \o ": " \o Take(txt, 500)
FailedMessage(exc) == "LLM call failed; last error: " \o exc.msg

\* last_exc = None (line 188); str(None) is "None"
NoneExc == [type |-> "None", msg |-> "None"]

\* line 204
ModelLoading == [type |-> "RuntimeError", msg |-> "model loading (503)"]

(***************************************************************************)
(* Summarizer.summarize, summarizer.py:271-343: the pure parts              *)
(***************************************************************************)
\* IsEmptyInput without the strip
IsEmptyInputNoStrip(t) == t = ""

\* line 285: not text or not text.strip()
IsEmptyInput(t) == t = "" \/ str_strip(t) = ""

\* FallbackWords without the cap of 30
FallbackWordsUncapped(n) == Max(10, n \div 6)

\* line 324: the number of words the local fallback keeps of n words
FallbackWords(n) == Min(30, Max(10, n \div 6))

\* lines 323-324
Fallback(ch) ==
    LET words == str_split_ws(ch)
        kept == SubSeq(words, 1, Min(Len(words), FallbackWords(Len(words))))
    IN  str_join(" ", kept) \o (IF Len(words) > 30 THEN "..." ELSE "")

\* lines 310-313
StrongerInstr ==
    "Important: Do NOT repeat the original text verbatim. Summarize only the main points. "
    \o "If the text is short, condense to a single short sentence. "

\* RepairRequest repeating the first request as it was
RepairRequestUnchanged(mid, prompt, prm) == [prompt |-> prompt, params |-> prm]

\* lines 302-315: the request of the second try of a chunk
RepairRequest(mid, prompt, prm) ==
    IF IsBart(mid)
    THEN [prompt |-> prompt,
          params |-> IF "max_length" \in DOMAIN prm
                     THEN [prm EXCEPT !.max_length = Min(@, 40)]
                     ELSE prm]
    ELSE [prompt |-> StrongerInstr \o "\n\n" \o prompt, params |-> prm]

\* lines 333-337
SynthPrompt(parts) ==
    "Combine the following partial summaries into a single coherent summary. Remove duplicates and be concise.\n\n"
    \o str_join("", [k \in 1..Len(parts) |->
                        "--- PART " \o int_str(k) \o " ---\n" \o parts[k] \o "\n\n"])

\* line 338
SynthRequest(parts) ==
    [prompt |-> SynthPrompt(parts),
     params |-> [max_new_tokens |-> 220, temperature |-> TEMPERATURE]]

(***************************************************************************)
(* The inputs of a run: the document, the style, the model, and what the    *)
(* endpoint answers.                                                        *)
(***************************************************************************)
\* sizes of the documents below
NMid == 20
NMedium == 35
NLong == 190
NPara == 60
NHard == 450

\* n words, the k-th being pre followed by k, joined by single spaces
Numbered(pre, n) == str_join(" ", [k \in 1..n |-> pre \o int_str(k)])

\* n one-letter words, joined by single spaces
Letters(n) == str_join(" ", [k \in 1..n |-> Char(LowerCase, (k % 26) + 1)])

\* n characters without whitespace
Solid(n) == str_join("", [k \in 1..n |-> Char(LowerCase, (k % 26) + 1)])

ShortDoc == "  Solar power is cheap.\r\n\r\nWind too.\n"
MidDoc == Numbered("m", NMid)
MediumDoc == Numbered("w", NMedium)
LongDoc == Letters(NLong) \o "\n"
TwoChunkDoc == Numbered("a", NPara) \o "\n\n" \o Numbered("b", NPara)
HardSplitDoc == Solid(NHard)

Styles == {"", "Bullets"}

Models == {"facebook/bart-large-cnn", "google/flan-t5-base"}

\* the summarize calls modelled: <<text, style, model_id>>
Runs ==
    ({"", " \r\n\t ", ShortDoc, MediumDoc, LongDoc} \X Styles \X Models)
    \cup {<<MidDoc, "", "facebook/bart-large-cnn">>,
          <<TwoChunkDoc, "", "facebook/bart-large-cnn">>,
          <<HardSplitDoc, "Bullets", "google/flan-t5-base">>}

\* the _call_hf calls modelled on their own, each with the request that
\* _prompt_and_params builds for <<model_id, text, style>>
DirectCalls ==
    {<<"facebook/bart-large-cnn", "Solar power is cheap.", "brief">>,
     <<"google/flan-t5-base", "Solar power is cheap.", "detailed">>}

\* status codes the endpoint answers with
Statuses == {200, 401, 403, 404, 410, 429, 500, 503}

\* exceptions requests.post raises
PostExceptions ==
    {[type |-> "ReadTimeout", msg |-> "read timed out"],
     [type |-> "RuntimeError", msg |-> "event loop closed"]}

\* The body of a response below 400 is described by its JSON shape and by
\* where the generated text comes from: "inputs" (the request's inputs
\* sent back), "document" (the whole document sent back), "summary" (a
\* short text in surrounding whitespace) or "blank".
GenSources == {"inputs", "document", "summary", "blank"}

TextShapes == {"list_generated_text", "dict_text_output", "list_str", "non_json"}

FixedShapes == {"list_result_num", "list_unknown_dict", "list_num", "dict_unknown",
                "empty_list"}

Replies ==
    [shape : {"list_summary_text"}, gen : GenSources]
    \cup [shape : TextShapes, gen : {"summary"}]
    \cup [shape : FixedShapes, gen : {"summary"}]

\* the body text of a response of status >= 400
ErrorReplies == [shape : {"error"}, gen : {"short", "long"}]

NoReply == [shape |-> "", gen |-> ""]

\* An endpoint is the statuses it may answer with, the bodies it may send
\* below status 400 and from status 400 on, and the exceptions requests.post
\* may raise.  AnyEndpoint is the endpoint of the _call_hf calls modelled on
\* their own, PlainEndpoint the one of the summarize calls.
AnyEndpoint ==
    [statuses |-> Statuses, replies |-> Replies, errors |-> ErrorReplies,
     exceptions |-> PostExceptions]

PlainEndpoint ==
    [statuses |-> {200, 401, 404, 410, 500, 503},
     replies |-> [shape : {"list_summary_text"}, gen : GenSources]
                 \cup {[shape |-> "list_result_num", gen |-> "summary"]},
     errors |-> {[shape |-> "error", gen |-> "short"]},
     exceptions |-> {[type |-> "ReadTimeout", msg |-> "read timed out"]}]

Generated(gen, req_inputs, document) ==
    CASE gen = "inputs" -> req_inputs
      [] gen = "document" -> document
      [] gen = "summary" -> "  Key points only.\n"
      [] gen = "blank" -> " \n"
      [] gen = "short" -> "{\"error\": \"denied\"}"
      [] gen = "long" -> Solid(600)
      [] OTHER -> ""

\* what resp.json() yields for a reply
ReplyData(reply, req_inputs, document) ==
    LET g == JStr(Generated(reply.gen, req_inputs, document))
    IN  CASE reply.shape = "list_summary_text" -> JList(<<JDict(<<<<"summary_text", g>>>>)>>)
          [] reply.shape = "list_generated_text" ->
               JList(<<JDict(<<<<"score", JNum(1)>>, <<"generated_text", g>>>>)>>)
          [] reply.shape = "dict_text_output" ->
               JDict(<<<<"output", JStr("raw")>>, <<"text", g>>>>)
          [] reply.shape = "list_str" -> JList(<<g>>)
          [] reply.shape = "list_result_num" -> JList(<<JDict(<<<<"result", JNum(42)>>>>)>>)
          [] reply.shape = "list_unknown_dict" ->
               JList(<<JDict(<<<<"label", JList(<<JStr("x")>>)>>>>)>>)
          [] reply.shape = "list_num" -> JList(<<JNum(42)>>)
          [] reply.shape = "dict_unknown" -> JDict(<<<<"label", JList(<<JStr("x")>>)>>>>)
          [] reply.shape = "empty_list" -> JList(<<>>)
          [] OTHER -> JNone

\* resp.text of a reply
ReplyText(reply, req_inputs, document) ==
    IF reply.shape \in {"non_json", "error"}
    THEN Generated(reply.gen, req_inputs, document)
    ELSE json_dumps(ReplyData(reply, req_inputs, document))

(***************************************************************************)
(* State.  One summarize call runs from pc = "start" to pc = "done"; while  *)
(* pc = "http" a requests.post of _call_hf is in flight.                    *)
(***************************************************************************)
VARIABLES
    endpoint,   \* what the remote endpoint may answer during the run
    chunk_chars, \* _chunk_text's argument chunk_chars (CHUNK_SIZE by default)
    text,       \* summarize's argument text
    style,      \* summarize's argument style
    model_id,   \* self.model_id
    pc,         \* "start", "http" or "done"
    chunks,     \* summarize: chunks (line 288)
    i,          \* summarize: the chunk being processed, counted from 1
    partials,   \* summarize: partials (line 289)
    out,        \* summarize: the first output of a chunk under repair
    phase,      \* the caller of the _call_hf call in progress: summarize's
                \* "first", "repair" or "synth" call, or a "direct" call;
                \* the name of the method when another method is called on its own
    inputs,     \* _call_hf: payload["inputs"]
    params,     \* _call_hf: payload["parameters"]
    url_idx,    \* _call_hf: the position of url in urls
    attempt,    \* _call_hf: attempt
    last_exc,   \* _call_hf: last_exc
    requests,   \* the requests.post calls of the latest _call_hf call
    attempts,   \* the outcomes of those that ended, oldest first
    sleeps,     \* the time.sleep calls of the latest _call_hf call
    calls,      \* the _call_hf calls begun, oldest first
    result      \* how the modelled call (summarize, or the direct _call_hf) ended

vars == <<endpoint, chunk_chars, text, style, model_id, pc, chunks, i, partials, out, phase, inputs, params,
          url_idx, attempt, last_exc, requests, attempts, sleeps, calls, result>>

NoResult == [kind |-> "none", type |-> "", val |-> ""]
Returned(v) == [kind |-> "return", type |-> v.type, val |-> v.val]
Raised(type, msg) == [kind |-> "raise", type |-> type, val |-> msg]

\* summarize(text, style) is about to be called
Init ==
    /\ endpoint = PlainEndpoint
    /\ chunk_chars = CHUNK_SIZE
    /\ \E r \in Runs :
          /\ text = r[1]
          /\ style = r[2]
          /\ model_id = r[3]
    /\ pc = "start"
    /\ chunks = <<>>
    /\ i = 0
    /\ partials = <<>>
    /\ out = ""
    /\ phase = ""
    /\ inputs = ""
    /\ params = [temperature |-> TEMPERATURE]
    /\ url_idx = 1
    /\ attempt = 0
    /\ last_exc = NoneExc
    /\ requests = 0
    /\ attempts = <<>>
    /\ sleeps = <<>>
    /\ calls = <<>>
    /\ result = NoResult

\* _call_hf(prompt, params) has been called on its own and is in its first
\* requests.post (lines 180-193)
InitCall ==
    /\ endpoint = AnyEndpoint
    /\ chunk_chars = CHUNK_SIZE
    /\ \E d \in DirectCalls :
          /\ model_id = d[1]
          /\ inputs = prompt_and_params(d[1], d[2], d[3]).prompt
          /\ params = prompt_and_params(d[1], d[2], d[3]).params
    /\ text = ""
    /\ style = ""
    /\ pc = "http"
    /\ chunks = <<>>
    /\ i = 0
    /\ partials = <<>>
    /\ out = ""
    /\ phase = "direct"
    /\ url_idx = 1
    /\ attempt = 1
    /\ last_exc = NoneExc
    /\ requests = 1
    /\ attempts = <<>>
    /\ sleeps = <<>>
    /\ calls = <<[phase |-> "direct", chunk |-> 0]>>
    /\ result = NoResult

(***************************************************************************)
(* summarize between two inference calls.  Each operator below yields the   *)
(* values of summarize's variables where it next blocks (pc = "http": in    *)
(* the first requests.post of a new _call_hf call) or ends (pc = "done").   *)
(***************************************************************************)
\* a _call_hf call begins: lines 294, 307, 315, 339
Calling(ph, idx, req, parts, o) ==
    [pc |-> "http", phase |-> ph, i |-> idx, partials |-> parts, out |-> o,
     inputs |-> req.prompt, params |-> req.params, result |-> NoResult]

\* the modelled call returns or raises
Ending(parts, res) ==
    [pc |-> "done", phase |-> phase, i |-> i, partials |-> parts, out |-> out,
     inputs |-> inputs, params |-> params, result |-> res]

\* LoopAt with a synthesis call whatever the number of partials
LoopAtAlwaysSynthesizes(cs, idx, parts) ==
    IF idx <= Len(cs)
    THEN Calling("first", idx, prompt_and_params(model_id, cs[idx], style), parts, "")
    ELSE Calling("synth", i, SynthRequest(parts), parts, "")

\* lines 291-294 and 328-339: the for loop reaches chunk idx of cs, or is
\* over, with the partials parts
LoopAt(cs, idx, parts) ==
    IF idx <= Len(cs)
    THEN Calling("first", idx, prompt_and_params(model_id, cs[idx], style), parts, "")
    ELSE IF Len(parts) = 1
    THEN Ending(parts, Returned(PyStr(str_strip(parts[1]))))
    ELSE Calling("synth", i, SynthRequest(parts), parts, "")

\* lines 295-326: _call_hf returned v for the first try of chunk i (v is a
\* str, so line 295 strips it)
AfterFirst(v) ==
    LET o == str_strip(v.val)
    IN  IF looks_like_echo(chunks[i], o)
        THEN Calling("repair", i, RepairRequest(model_id, inputs, params), partials, o)
        ELSE LoopAt(chunks, i + 1, Append(partials, o))

\* AfterRepair trying the repair request again after an echo
AfterRepairRetriesOnEcho(v) ==
    LET out2 == str_strip(v.val)
    IN  IF ~looks_like_echo(chunks[i], out2)
        THEN LoopAt(chunks, i + 1, Append(partials, out2))
        ELSE Calling("repair", i, [prompt |-> inputs, params |-> params], partials, out)

\* AfterRepair putting the chunk's partial in front of the earlier ones
AfterRepairPrepends(v) ==
    LET out2 == str_strip(v.val)
    IN  IF ~looks_like_echo(chunks[i], out2)
        THEN LoopAt(chunks, i + 1, <<out2>> \o partials)
        ELSE LoopAt(chunks, i + 1, <<Fallback(chunks[i])>> \o partials)

\* AfterRepair keeping the first output whatever the second is
AfterRepairKeepsFirst(v) == LoopAt(chunks, i + 1, Append(partials, out))

\* lines 317-326: _call_hf returned v for the second try of chunk i
AfterRepair(v) ==
    LET out2 == str_strip(v.val)
    IN  IF ~looks_like_echo(chunks[i], out2)
        THEN LoopAt(chunks, i + 1, Append(partials, out2))
        ELSE LoopAt(chunks, i + 1, Append(partials, Fallback(chunks[i])))

\* AfterSynth without the echo check
AfterSynthNoFallback(v) == Ending(partials, Returned(PyStr(str_strip(v.val))))

\* lines 339-343: _call_hf returned v for the synthesis
AfterSynth(v) ==
    LET final == str_strip(v.val)
    IN  IF looks_like_echo(text, final)
        THEN Ending(partials, Returned(PyStr(str_join("\n", partials))))
        ELSE Ending(partials, Returned(PyStr(final)))

\* _call_hf returned v to its caller
OnReturn(v) ==
    CASE phase = "first" -> AfterFirst(v)
      [] phase = "repair" -> AfterRepair(v)
      [] phase = "synth" -> AfterSynth(v)
      [] OTHER -> Ending(partials, Returned(v))

\* OnRaise with a failed synthesis answered by the joined partials
OnRaiseJoinsAtSynth(type, msg) ==
    IF phase = "synth"
    THEN Ending(partials, Returned(PyStr(str_join("\n", partials))))
    ELSE Ending(partials, Raised(type, msg))

\* OnRaise with a failed second try answered by the local fallback
OnRaiseRepairFallsBack(type, msg) ==
    IF phase = "repair"
    THEN LoopAt(chunks, i + 1, Append(partials, Fallback(chunks[i])))
    ELSE Ending(partials, Raised(type, msg))

\* _call_hf raised: summarize has no except clause, the exception leaves it
OnRaise(type, msg) == Ending(partials, Raised(type, msg))

\* the caller's variables take the values of n; a new _call_hf call starts
\* at lines 180-193 with its first requests.post
Resume(n) ==
    /\ pc' = n.pc
    /\ phase' = n.phase
    /\ i' = n.i
    /\ partials' = n.partials
    /\ out' = n.out
    /\ inputs' = n.inputs
    /\ params' = n.params
    /\ result' = n.result
    /\ calls' = IF n.pc = "http"
                THEN Append(calls, [phase |-> n.phase, chunk |-> n.i])
                ELSE calls

\* _call_hf's variables where a call begins (lines 188-193)
BeginCall ==
    /\ url_idx' = 1
    /\ attempt' = 1
    /\ last_exc' = NoneExc
    /\ requests' = 1
    /\ attempts' = <<>>
    /\ sleeps' = <<>>

(***************************************************************************)
(* summarize is called                                                      *)
(***************************************************************************)
\* lines 285-286
SummarizeEmpty ==
    /\ pc = "start"
    /\ IsEmptyInput(text)
    /\ Resume(Ending(partials, Raised("SummarizationError", "Empty input.")))
    /\ UNCHANGED <<endpoint, chunk_chars, text, style, model_id, chunks, url_idx, attempt, last_exc, requests,
                   attempts, sleeps>>

\* lines 288-294
SummarizeStart ==
    /\ pc = "start"
    /\ ~IsEmptyInput(text)
    /\ chunks' = chunk_text(text, chunk_chars)
    /\ Resume(LoopAt(chunks', 1, <<>>))
    /\ BeginCall
    /\ UNCHANGED <<endpoint, chunk_chars, text, style, model_id>>

(***************************************************************************)
(* _call_hf: the requests.post in flight ends                               *)
(***************************************************************************)
Outcome(status, type, reply) == [status |-> status, exc |-> type, reply |-> reply]

\* the _call_hf call in progress ends after the outcome entry of its last
\* request, with last_exc = exc, and its caller goes on to n
EndCall(entry, exc, n) ==
    /\ Resume(n)
    /\ IF n.pc = "http"
       THEN BeginCall
       ELSE /\ attempts' = Append(attempts, entry)
            /\ last_exc' = exc
            /\ UNCHANGED <<url_idx, attempt, requests, sleeps>>
    /\ UNCHANGED <<endpoint, chunk_chars, text, style, model_id, chunks>>

CallReturns(entry, v) == EndCall(entry, last_exc, OnReturn(v))

CallRaises(entry, exc, type, msg) == EndCall(entry, exc, OnRaise(type, msg))

\* lines 240-243 and 248-251: sleep, then the next attempt's requests.post
Retry(entry, exc) ==
    /\ last_exc' = exc
    /\ sleeps' = Append(sleeps, Backoff(attempt))
    /\ attempt' = attempt + 1
    /\ requests' = requests + 1
    /\ attempts' = Append(attempts, entry)
    /\ UNCHANGED <<endpoint, chunk_chars, text, style, model_id, pc, chunks, i, partials, out, phase, inputs,
                   params, url_idx, calls, result>>

\* lines 239-252: exc is raised inside the try block
RaisedInTry(entry, exc) ==
    IF Handler(exc.type) = "reraise"
    THEN CallRaises(entry, last_exc, exc.type, exc.msg)
    ELSE IF MayRetry(attempt)
    THEN Retry(entry, exc)
    ELSE CallRaises(entry, exc, "SummarizationError", ExhaustedMessage(exc))

\* lines 197-199
Resp410 ==
    /\ pc = "http"
    /\ \E status \in endpoint.statuses :
          /\ Classify(status) = "gone"
          /\ RaisedInTry(Outcome(status, "", NoReply),
                         [type |-> "SummarizationError", msg |-> GoneMessage])

\* lines 200-201
RespAuth ==
    /\ pc = "http"
    /\ \E status \in endpoint.statuses, reply \in endpoint.errors :
          /\ Classify(status) = "auth"
          /\ RaisedInTry(Outcome(status, "", reply),
                         [type |-> "SummarizationError",
                          msg |-> AuthMessage(status, ReplyText(reply, inputs, text))])

\* lines 202-204
Resp503 ==
    /\ pc = "http"
    /\ \E status \in endpoint.statuses :
          /\ Classify(status) = "transient"
          /\ RaisedInTry(Outcome(status, "", NoReply), ModelLoading)

\* lines 205-207 and 253-254: break, then the next url or the final raise
Resp404 ==
    /\ pc = "http"
    /\ \E status \in endpoint.statuses :
          /\ Classify(status) = "not_found"
          /\ IF url_idx < Len(urls(model_id))
             THEN /\ url_idx' = url_idx + 1
                  /\ attempt' = 1
                  /\ requests' = requests + 1
                  /\ attempts' = Append(attempts, Outcome(status, "", NoReply))
                  /\ UNCHANGED <<endpoint, chunk_chars, text, style, model_id, pc, chunks, i, partials, out,
                                 phase, inputs, params, last_exc, sleeps, calls, result>>
             ELSE CallRaises(Outcome(status, "", NoReply), last_exc,
                             "SummarizationError", FailedMessage(last_exc))

\* lines 208-209
RespError ==
    /\ pc = "http"
    /\ \E status \in endpoint.statuses, reply \in endpoint.errors :
          /\ Classify(status) = "error"
          /\ RaisedInTry(Outcome(status, "", reply),
                         [type |-> "SummarizationError",
                          msg |-> ApiErrorMessage(status, ReplyText(reply, inputs, text))])

\* lines 211-238
RespSuccess ==
    /\ pc = "http"
    /\ \E status \in endpoint.statuses, reply \in endpoint.replies :
          /\ Classify(status) = "ok"
          /\ CallReturns(Outcome(status, "", reply),
                         ParseResponse(ReplyData(reply, inputs, text),
                                       ReplyText(reply, inputs, text)))

\* line 193: requests.post raises
PostRaises ==
    /\ pc = "http"
    /\ \E exc \in endpoint.exceptions :
          RaisedInTry(Outcome(0, exc.type, NoReply), exc)

\* the steps of _call_hf
NextCall ==
    \/ Resp410
    \/ RespAuth
    \/ Resp503
    \/ Resp404
    \/ RespError
    \/ RespSuccess
    \/ PostRaises

Next ==
    \/ SummarizeEmpty
    \/ SummarizeStart
    \/ NextCall

\* a summarize call
Spec == Init /\ [][Next]_vars

\* a _call_hf call on its own
SpecCall == InitCall /\ [][NextCall]_vars

(***************************************************************************)
(* _chunk_text, _looks_like_echo and _prompt_and_params called on their     *)
(* own.  pc = "call": the method named by phase is about to run on the      *)
(* arguments held by text, chunk_chars, out, style and model_id.            *)
(***************************************************************************)
\* the largest chunk_chars of the _chunk_text calls
MaxChunkChars == 10

\* the texts of the _chunk_text calls: three paragraphs, any of them
\* possibly empty, with two separators
ChunkParagraphs == {"", "ab", "cdefg h"}
ChunkSeparators == {"\n\n", "\r\n", " \n\n\n"}
ChunkTexts ==
    {p[1] \o q[1] \o p[2] \o q[2] \o p[3] :
        p \in ChunkParagraphs \X ChunkParagraphs \X ChunkParagraphs,
        q \in ChunkSeparators \X ChunkSeparators}

\* the arguments of the _looks_like_echo calls
EchoInputs ==
    {"", "   ", "abc", " a  b\tc\n", "the cat sat on the mat",
     "abcdefghijklmnopqrstuvwxyzabcdefghijklmn",
     "abcdefghijklmnopqrstuvwxyzabcdefghijklmno",
     "abcdefghij klmnopqrst uvwxyzabcd efghijklmn opqrstuvwx"}
EchoOutputs ==
    EchoInputs
    \cup {"a b c", "b c", "cat sat", "x abc y", "Q", "dog",
          "ABCDEFGHIJKLMNOPQRSTUVWXYZABCDEFGHIJ",
          "ABCDEFGHIJKLMNOPQRSTUVWXYZABCDEFGHIJK",
          "ABCDEFGHIJ  KLMNOPQRST\nUVWXYZABCD EFGHIJKLMN OPQRSTUV"}

\* the arguments of the _prompt_and_params calls
PromptModels == Models \cup {"acme/DistilBART-xsum", "t5-small"}
PromptStyles == {"brief", "detailed", "bullets", "", "Detailed", "BULLETS", "haiku", "briefly"}
PromptTexts == {"Solar power is cheap.", "  Wind too.\n\nAnd hydro. "}

InitPure ==
    /\ endpoint = PlainEndpoint
    /\ pc = "call"
    /\ \/ /\ phase = "chunk_text"
          /\ text \in ChunkTexts
          /\ chunk_chars \in 1..MaxChunkChars
          /\ out = ""
          /\ style = ""
          /\ model_id = ""
       \/ /\ phase = "looks_like_echo"
          /\ text \in EchoInputs
          /\ out \in EchoOutputs
          /\ chunk_chars = CHUNK_SIZE
          /\ style = ""
          /\ model_id = ""
       \/ /\ phase = "prompt_and_params"
          /\ text \in PromptTexts
          /\ style \in PromptStyles
          /\ model_id \in PromptModels
          /\ chunk_chars = CHUNK_SIZE
          /\ out = ""
    /\ chunks = <<>>
    /\ i = 0
    /\ partials = <<>>
    /\ inputs = ""
    /\ params = [temperature |-> TEMPERATURE]
    /\ url_idx = 1
    /\ attempt = 0
    /\ last_exc = NoneExc
    /\ requests = 0
    /\ attempts = <<>>
    /\ sleeps = <<>>
    /\ calls = <<>>
    /\ result = NoResult

\* _chunk_text(text, chunk_chars) returns chunks
ChunkTextCall ==
    /\ pc = "call"
    /\ phase = "chunk_text"
    /\ chunks' = chunk_text(text, chunk_chars)
    /\ result' = [kind |-> "return", type |-> "list", val |-> ""]
    /\ pc' = "done"
    /\ UNCHANGED <<endpoint, chunk_chars, text, style, model_id, i, partials, out, phase, inputs,
                   params, url_idx, attempt, last_exc, requests, attempts, sleeps, calls>>

\* _looks_like_echo(text, out) returns result.val
LooksLikeEchoCall ==
    /\ pc = "call"
    /\ phase = "looks_like_echo"
    /\ result' = [kind |-> "return", type |-> "bool", val |-> looks_like_echo(text, out)]
    /\ pc' = "done"
    /\ UNCHANGED <<endpoint, chunk_chars, text, style, model_id, chunks, i, partials, out, phase,
                   inputs, params, url_idx, attempt, last_exc, requests, attempts, sleeps, calls>>

\* _prompt_and_params(text, style) returns inputs, params
PromptAndParamsCall ==
    /\ pc = "call"
    /\ phase = "prompt_and_params"
    /\ inputs' = prompt_and_params(model_id, text, style).prompt
    /\ params' = prompt_and_params(model_id, text, style).params
    /\ result' = [kind |-> "return", type |-> "tuple", val |-> ""]
    /\ pc' = "done"
    /\ UNCHANGED <<endpoint, chunk_chars, text, style, model_id, chunks, i, partials, out, phase,
                   url_idx, attempt, last_exc, requests, attempts, sleeps, calls>>

NextPure ==
    \/ ChunkTextCall
    \/ LooksLikeEchoCall
    \/ PromptAndParamsCall

SpecPure == InitPure /\ [][NextPure]_vars

\* a summarize call, or one of the three methods called on its own
InitAll == Init \/ InitPure

NextAll == Next \/ NextPure

SpecAll == InitAll /\ [][NextAll]_vars

(***************************************************************************)
(* What the mocked client saw and answered, read off the log of the latest  *)
(* _call_hf call.                                                           *)
(***************************************************************************)
\* the text a reply below status 400 carries
ExpectedText(reply) ==
    CASE reply.shape \in {"list_result_num", "list_num"} -> "42"
      [] reply.shape \in {"list_unknown_dict", "dict_unknown"} -> "{\"label\": [\"x\"]}"
      [] reply.shape = "empty_list" -> "[]"
      [] OTHER -> Generated(reply.gen, inputs, text)

LastAttempt == attempts[Len(attempts)]

\* the outcome of a request was a retryable failure: status 503, or an
\* exception of requests.post
Retryable(entry) == entry.status = 503 \/ entry.status = 0

\* the outcome of a request was a response of status below 400
Succeeded(entry) == entry.status > 0 /\ entry.status < 400

\* the outcome of a request was a response of a status that is not retried
Terminal(entry) == entry.status >= 400 /\ entry.status # 503

\* str(e) of the failure of a retryable outcome
Cause(entry) ==
    IF entry.status = 503 THEN "model loading (503)"
    ELSE (CHOOSE e \in PostExceptions : e.type = entry.exc).msg

EndsWith(s, suffix) == Slice(s, Len(s) - Len(suffix) + 1, Len(s)) = suffix

(***************************************************************************)
(* _call_hf (specification SpecCall)                                        *)
(***************************************************************************)
\* C1: if the first k requests (1 <= k < MAX_RETRIES) are answered with
\* status 503 and request k+1 with a status below 400, then the call has
\* ended having sent exactly k+1 requests, it returned the text of that
\* response, and it slept RETRY_BASE_SECONDS * n after failed attempt n.
C1_RetryThenSuccess ==
    \A k \in 1..(MAX_RETRIES - 1) :
        ( /\ Len(attempts) >= k + 1
          /\ \A n \in 1..k : attempts[n].status = 503
          /\ Succeeded(attempts[k + 1]) )
        => /\ pc = "done"
           /\ requests = k + 1
           /\ Len(attempts) = k + 1
           /\ result = [kind |-> "return", type |-> "str",
                        val |-> ExpectedText(attempts[k + 1].reply)]
           /\ sleeps = [n \in 1..k |-> RETRY_BASE_SECONDS * n]

\* C1 witness: 503, 503, then 200 with a summary
C1_Witness ==
    /\ pc = "done"
    /\ phase = "direct"
    /\ [n \in 1..Len(attempts) |-> attempts[n].status] = <<503, 503, 200>>
    /\ result.kind = "return"
    /\ result.val = "  Key points only.\n"
    /\ sleeps = <<15, 30>>

\* C2: a response of status 401, 403, 410, 404 or any other status >= 400
\* except 503 is the last thing the call does: no request and no sleep
\* follows it, and the call raised SummarizationError.
C2_TerminalNotRetried ==
    \A n \in 1..Len(attempts) :
        Terminal(attempts[n])
        => /\ n = Len(attempts)
           /\ pc = "done"
           /\ requests = n
           /\ Len(sleeps) = n - 1
           /\ result.kind = "raise"
           /\ result.type = "SummarizationError"

\* C2 witness: an auth failure on the first attempt, one request in total
C2_Witness ==
    /\ pc = "done"
    /\ phase = "direct"
    /\ Len(attempts) = 1
    /\ attempts[1].status \in {401, 403}
    /\ requests = 1
    /\ sleeps = <<>>
    /\ result.kind = "raise"

\* C3: never more than MAX_RETRIES requests are sent; while every attempt
\* so far failed retryably the call goes on to the next attempt, and once
\* MAX_RETRIES attempts have failed retryably the call has raised
\* SummarizationError with the cause of the last failed attempt in its
\* message.
C3_RetriesExhausted ==
    /\ requests <= MAX_RETRIES
    /\ (\A n \in 1..Len(attempts) : Retryable(attempts[n]))
       => IF Len(attempts) < MAX_RETRIES
          THEN pc = "http" /\ requests = Len(attempts) + 1
          ELSE /\ pc = "done"
               /\ requests = MAX_RETRIES
               /\ Len(attempts) = MAX_RETRIES
               /\ result.kind = "raise"
               /\ result.type = "SummarizationError"
               /\ EndsWith(result.val, ": " \o Cause(LastAttempt))

\* C3 witness: a timeout, a 503 and a RuntimeError of requests.post
C3_Witness ==
    /\ pc = "done"
    /\ phase = "direct"
    /\ Len(attempts) = MAX_RETRIES
    /\ attempts[1].exc = "ReadTimeout"
    /\ attempts[2].status = 503
    /\ attempts[3].exc = "RuntimeError"
    /\ result.val = "Model loading / transient error: event loop closed"

\* C4: however the call ends, it either raised SummarizationError or
\* returned a str.
C4_OnlySummarizationError ==
    pc = "done"
    => \/ result.kind = "raise" /\ result.type = "SummarizationError"
       \/ result.kind = "return" /\ result.type = "str"

\* C4 witness: every attempt ended in a transport exception
C4_Witness ==
    /\ pc = "done"
    /\ phase = "direct"
    /\ Len(attempts) = MAX_RETRIES
    /\ \A n \in 1..Len(attempts) : attempts[n].exc = "ReadTimeout"
    /\ result = Raised("SummarizationError", "Hugging Face request failed: read timed out")

(***************************************************************************)
(* summarize (specification Spec)                                           *)
(***************************************************************************)
\* the latest _call_hf call ended with a response below status 400, whose
\* text is LastText, or otherwise
CallSucceeded == attempts # <<>> /\ Succeeded(LastAttempt)
CallFailed == attempts # <<>> /\ ~Succeeded(LastAttempt)
LastText == ExpectedText(LastAttempt.reply)

FirstThenRepair == <<[phase |-> "first", chunk |-> 1], [phase |-> "repair", chunk |-> 1]>>

\* C5: with a single chunk, when the first output was flagged as an echo
\* and the output of the repair call is not, summarize returns the trimmed
\* repair output, after exactly two inference calls.
C5_RepairAccepted ==
    ( /\ pc = "done"
      /\ Len(chunks) = 1
      /\ phase = "repair"
      /\ CallSucceeded
      /\ ~looks_like_echo(chunks[1], str_strip(LastText)) )
    => /\ looks_like_echo(chunks[1], out)
       /\ result = [kind |-> "return", type |-> "str", val |-> str_strip(LastText)]
       /\ calls = FirstThenRepair

\* C5 witness: the repair call answered "  Key points only.\n"
C5_Witness ==
    /\ pc = "done"
    /\ Len(chunks) = 1
    /\ phase = "repair"
    /\ CallSucceeded
    /\ LastAttempt.reply.gen = "summary"
    /\ looks_like_echo(chunks[1], out)
    /\ result.val = "Key points only."
    /\ Len(calls) = 2

\* C6: with a single chunk, when both the first and the repair output were
\* flagged as echoes, summarize makes no third call and returns the first
\* min(30, max(10, wordCount // 6)) words of the chunk joined by spaces, the
\* last one possibly followed by "...": at most 31 words.
C6_DoubleEchoFallback ==
    ( /\ pc = "done"
      /\ Len(chunks) = 1
      /\ phase = "repair"
      /\ CallSucceeded
      /\ looks_like_echo(chunks[1], str_strip(LastText)) )
    => LET words == str_split_ws(chunks[1])
           n == Min(Len(words), Min(30, Max(10, Len(words) \div 6)))
           got == str_split_ws(result.val)
       IN  /\ looks_like_echo(chunks[1], out)
           /\ calls = FirstThenRepair
           /\ result.kind = "return"
           /\ Len(got) = n
           /\ Len(got) <= 31
           /\ \A j \in 1..(n - 1) : got[j] = words[j]
           /\ got[n] \in {words[n], words[n] \o "..."}
           /\ result.val = str_join(" ", got)

\* C6 witness: a chunk of more than 180 words, of which 30 are kept
C6_Witness ==
    /\ pc = "done"
    /\ Len(chunks) = 1
    /\ phase = "repair"
    /\ CallSucceeded
    /\ looks_like_echo(chunks[1], str_strip(LastText))
    /\ Len(str_split_ws(chunks[1])) > 180
    /\ Len(str_split_ws(result.val)) = 30
    /\ Len(calls) = 2

\* C7: with two or more chunks, when the synthesis output is flagged as an
\* echo of the whole input text, summarize returns the partials, one per
\* chunk and in chunk order, joined by single newlines; otherwise it returns
\* the trimmed synthesis output.
C7_SynthesisEcho ==
    ( /\ pc = "done"
      /\ phase = "synth"
      /\ Len(chunks) >= 2
      /\ CallSucceeded )
    => /\ result.kind = "return"
       /\ Len(partials) = Len(chunks)
       /\ IF looks_like_echo(text, str_strip(LastText))
          THEN str_split(result.val, "\n") = partials
          ELSE result.val = str_strip(LastText)

\* C7 witness: the synthesis call answered with the whole document
C7_Witness ==
    /\ pc = "done"
    /\ phase = "synth"
    /\ Len(chunks) = 2
    /\ CallSucceeded
    /\ LastAttempt.reply.gen = "document"
    /\ result.val = partials[1] \o "\n" \o partials[2]
    /\ partials[1] # ""
    /\ partials[2] # ""

\* C8 as claimed: when every chunk has its partial and the synthesis call
\* fails, summarize returns the partials joined by newlines.
C8_SynthFailureJoins ==
    ( /\ pc = "done"
      /\ phase = "synth"
      /\ Len(chunks) >= 2
      /\ Len(partials) = Len(chunks)
      /\ CallFailed )
    => /\ result.kind = "return"
       /\ result.val = str_join("\n", partials)

\* C8 as amended: when every chunk has its partial and the synthesis call
\* fails, summarize returns nothing: it raises the SummarizationError of the
\* synthesis call.
C8_SynthFailureRaises ==
    ( /\ pc = "done"
      /\ phase = "synth"
      /\ Len(chunks) >= 2
      /\ Len(partials) = Len(chunks)
      /\ CallFailed )
    => /\ result.kind = "raise"
       /\ result.type = "SummarizationError"

\* C8 witness: two partials, then the synthesis call is refused
C8_Witness ==
    /\ pc = "done"
    /\ phase = "synth"
    /\ Len(partials) = 2
    /\ CallFailed
    /\ LastAttempt.status = 401
    /\ result.kind = "raise"

\* C9: when the first or the repair call of chunk i fails, summarize raises
\* SummarizationError: that call is the last one made, no call was made for
\* a later chunk or for the synthesis, chunk i got no partial and nothing is
\* returned.
C9_ChunkErrorPropagates ==
    ( /\ pc = "done"
      /\ phase \in {"first", "repair"}
      /\ CallFailed )
    => /\ result.kind = "raise"
       /\ result.type = "SummarizationError"
       /\ calls[Len(calls)] = [phase |-> phase, chunk |-> i]
       /\ \A c \in 1..Len(calls) : calls[c].chunk <= i /\ calls[c].phase # "synth"
       /\ Len(partials) = i - 1

\* C9 witness: the repair call of the first of two chunks fails
C9_Witness ==
    /\ pc = "done"
    /\ phase = "repair"
    /\ i = 1
    /\ Len(chunks) = 2
    /\ CallFailed
    /\ result.kind = "raise"
    /\ calls = FirstThenRepair

\* C10: for an empty or whitespace-only text summarize raises
\* SummarizationError at once: nothing was chunked, no inference call was
\* begun and no request was sent.
C10_EmptyInputRaisesFirst ==
    ( /\ pc # "start"
      /\ \A k \in 1..Len(text) : Char(text, k) \in Whitespace )
    => /\ pc = "done"
       /\ result = Raised("SummarizationError", "Empty input.")
       /\ chunks = <<>>
       /\ calls = <<>>
       /\ requests = 0
       /\ attempts = <<>>

\* C10 witness: a text of whitespace only
C10_Witness ==
    /\ pc = "done"
    /\ text = " \r\n\t "
    /\ result.kind = "raise"
    /\ calls = <<>>

\* C11: when the chunker yields exactly one chunk, no synthesis call is
\* made; summarize makes one or two inference calls, both for that chunk, and
\* what it returns is the chunk's trimmed partial: the first output, or
\* after a repair call the repair output or the local fallback.
C11_SingleChunkNoSynthesis ==
    Len(chunks) = 1
    => /\ Len(calls) \in {1, 2}
       /\ \A c \in 1..Len(calls) : calls[c].phase # "synth" /\ calls[c].chunk = 1
       /\ (pc = "done" /\ result.kind = "return")
          => /\ partials = <<result.val>>
             /\ result.val = str_strip(result.val)
             /\ IF Len(calls) = 1
                THEN result.val = str_strip(LastText)
                ELSE result.val \in {str_strip(LastText), Fallback(chunks[1])}

\* C11 witness: one chunk, one call, its output returned trimmed
C11_Witness ==
    /\ pc = "done"
    /\ Len(chunks) = 1
    /\ calls = <<[phase |-> "first", chunk |-> 1]>>
    /\ result.kind = "return"
    /\ result.val = "Key points only."

(***************************************************************************)
(* _chunk_text, _looks_like_echo, _prompt_and_params (specification         *)
(* SpecPure)                                                                *)
(***************************************************************************)
ChunkTextDone == pc = "done" /\ phase = "chunk_text"

HasContent(s) == \E k \in 1..Len(s) : Char(s, k) \notin Whitespace

\* the paragraphs of a text: its line endings normalised, it is cut at the
\* blank lines, each piece is trimmed and the empty pieces are dropped
InputParagraphs(s) == Paragraphs(str_strip(str_replace(s, "\r\n", "\n")))

\* a text without "\r\n" whose blank lines, once it is trimmed, are exactly
\* "\n\n" between two characters that are not whitespace
PlainLayout(s) ==
    /\ ~Contains(s, "\r\n")
    /\ LET t == str_strip(s)
       IN  \A k \in 1..(Len(t) - 1) :
              (Char(t, k) = "\n" /\ Char(t, k + 1) = "\n")
              => (Char(t, k - 1) \notin Whitespace /\ Char(t, k + 2) \notin Whitespace)

C13_ChunksWithinCeiling ==
    ChunkTextDone
    => /\ \A k \in 1..Len(chunks) : Len(chunks[k]) <= chunk_chars
       /\ LET ps == InputParagraphs(text)
          IN  \A j \in 1..Len(ps) :
                 Len(ps[j]) > chunk_chars
                 => LET full == Len(ps[j]) \div chunk_chars
                        rest == Len(ps[j]) % chunk_chars
                        n == full + (IF rest > 0 THEN 1 ELSE 0)
                    IN  \E k \in 0..(Len(chunks) - n) :
                           /\ \A w \in 1..full :
                                 /\ Len(chunks[k + w]) = chunk_chars
                                 /\ chunks[k + w]
                                    = SubSeq(ps[j], (w - 1) * chunk_chars + 1, w * chunk_chars)
                           /\ rest > 0
                              => chunks[k + n]
                                 = SubSeq(ps[j], full * chunk_chars + 1, Len(ps[j]))

\* C13 witness: a paragraph of 7 characters between two short ones, cut
\* into windows of 6 and 1; the window of 1 stays apart from its neighbour
C13_Witness ==
    /\ ChunkTextDone
    /\ text = "ab\n\ncdefg h\n\nab"
    /\ chunk_chars = 6
    /\ chunks = <<"ab", "cdefg ", "h", "ab">>

\* C14: the chunks _chunk_text returns, each without its "\n\n" separators,
\* concatenated in order, are the concatenation of the text's stripped
\* non-empty paragraphs in their order: no paragraph is dropped, repeated or
\* moved.
C14_ParagraphsExactlyOnce ==
    ChunkTextDone
    => str_join("", [k \in 1..Len(chunks) |-> str_replace(chunks[k], "\n\n", "")])
       = str_join("", InputParagraphs(text))

\* C14 witness: two paragraphs merged into one chunk, a third cut in two
C14_Witness ==
    /\ ChunkTextDone
    /\ text = "ab\n\nab\n\ncdefg h"
    /\ chunk_chars = 6
    /\ InputParagraphs(text) = <<"ab", "ab", "cdefg h">>
    /\ chunks = <<"ab\n\nab", "cdefg ", "h">>

EchoDone == pc = "done" /\ phase = "looks_like_echo"

\* s with every run of whitespace between two words replaced by one space
\* and the whitespace at its ends removed
Collapsed(s) ==
    LET kept == SelectSeq(Indices(s),
                          LAMBDA k : \/ Char(s, k) \notin Whitespace
                                     \/ /\ k > 1
                                        /\ Char(s, k - 1) \notin Whitespace
                                        /\ \E m \in (k + 1)..Len(s) : Char(s, m) \notin Whitespace)
    IN  str_join("", [j \in 1..Len(kept) |->
                        IF Char(s, kept[j]) \in Whitespace THEN " " ELSE Char(s, kept[j])])

\* a occurs in b
IsSubstring(a, b) ==
    \E skip \in 0..(Len(b) - Len(a)) : \A j \in 1..Len(a) : Char(a, j) = Char(b, skip + j)

\* C15: _looks_like_echo(input, output) is true exactly when, on the
\* whitespace-collapsed strings, the output is empty, or equals the input, or
\* one is a substring of the other, or the output is at least 0.9 times as
\* long as the input and the input is longer than 40 characters; so it is
\* true for (x, x) with x non-empty and for (x, "").
C15_EchoRule ==
    EchoDone
    => LET n == Collapsed(text)
           o == Collapsed(out)
       IN  /\ result.val = ( \/ o = ""
                             \/ o = n
                             \/ IsSubstring(n, o)
                             \/ IsSubstring(o, n)
                             \/ (10 * Len(o) >= 9 * Len(n) /\ Len(n) > 40) )
           /\ (text # "" /\ out = text) => result.val
           /\ out = "" => result.val

\* C15 witness: an input of 41 characters and an unrelated output of 37
C15_Witness ==
    /\ EchoDone
    /\ Len(Collapsed(text)) = 41
    /\ Len(Collapsed(out)) = 37
    /\ ~IsSubstring(Collapsed(out), Collapsed(text))
    /\ result.val = TRUE

PromptDone == pc = "done" /\ phase = "prompt_and_params"

\* the model identity holds "bart" in any mix of upper and lower case
NamesBart(m) ==
    \E skip \in 0..(Len(m) - 4) :
       \A j \in 1..4 : Char(m, skip + j) \in {Char("bart", j), Char("BART", j)}

\* st is the style name (in lower case), in any mix of upper and lower case
IsStyle(st, name) ==
    /\ Len(st) = Len(name)
    /\ \A j \in 1..Len(st) :
          \/ Char(st, j) = Char(name, j)
          \/ \E c \in 1..26 : Char(st, j) = Char(UpperCase, c) /\ Char(name, j) = Char(LowerCase, c)

\* the four cases of a style; no style at all ("") is the default, brief
StyleCase(st) ==
    CASE st = "" \/ IsStyle(st, "brief") -> 1
      [] IsStyle(st, "detailed") -> 2
      [] IsStyle(st, "bullets") -> 3
      [] OTHER -> 4

\* C16: _prompt_and_params is in the direct-text regime exactly when the
\* model identity holds "bart", whatever the case.  There the prompt is the
\* text verbatim and the parameters are max_length and min_length of (50, 10)
\* for brief, (120, 20) for detailed, (80, 15) for bullets and (60, 10) for
\* any other style, with the temperature.  Otherwise the parameters are
\* max_new_tokens of 140, 400, 220 and 200 for the same cases, with the
\* temperature and without max_length or min_length.
C16_RegimeAndParameters ==
    PromptDone
    => LET c == StyleCase(style)
       IN  IF NamesBart(model_id)
           THEN /\ inputs = text
                /\ params = [max_length |-> <<50, 120, 80, 60>>[c],
                             min_length |-> <<10, 20, 15, 10>>[c],
                             temperature |-> TEMPERATURE]
           ELSE /\ DOMAIN params = {"max_new_tokens", "temperature"}
                /\ params.max_new_tokens = <<140, 400, 220, 200>>[c]
                /\ params.temperature = TEMPERATURE

\* C16 witness: a model named in upper case, an unknown style
C16_Witness ==
    /\ PromptDone
    /\ model_id = "acme/DistilBART-xsum"
    /\ style = "haiku"
    /\ inputs = text
    /\ params.max_length = 60
    /\ params.min_length = 10

(***************************************************************************)
(* summarize, continued (specification Spec)                                *)
(***************************************************************************)
\* summarize ended a single-chunk run by the local fallback: both the first
\* and the repair output were flagged as echoes
FellBack ==
    /\ pc = "done"
    /\ Len(chunks) = 1
    /\ phase = "repair"
    /\ CallSucceeded
    /\ looks_like_echo(chunks[1], out)
    /\ looks_like_echo(chunks[1], str_strip(LastText))
    /\ result.kind = "return"

\* C17 as claimed: the local fallback ends with an ellipsis if and only if
\* it is a truncation of the chunk, that is, the chunk has more words than
\* the min(30, max(10, wordCount // 6)) words kept.
C17_EllipsisIffTruncated ==
    FellBack
    => LET n == Len(str_split_ws(chunks[1]))
       IN  EndsWith(result.val, "...") <=> (n > Min(30, Max(10, n \div 6)))

\* C17 witness: the fallback of a chunk of 11 to 30 words keeps 10 words
\* and no ellipsis marks the cut
C17_SilentTruncation ==
    /\ FellBack
    /\ Len(str_split_ws(chunks[1])) \in 11..30
    /\ Len(str_split_ws(result.val)) = 10
    /\ ~EndsWith(result.val, "...")

\* C18: the repair request keeps the chunk's content.  In the direct-text
\* regime its prompt is the first request's prompt, the chunk, and its
\* parameters are the first request's with max_length lowered to
\* min(max_length, 40), min_length and temperature as they were.  In the
\* instruction-following regime its parameters are the first request's and
\* its prompt is the stronger instruction, a blank line and the whole first
\* prompt.
C18_RepairKeepsChunk ==
    phase = "repair"
    => LET first == prompt_and_params(model_id, chunks[i], style)
       IN  IF NamesBart(model_id)
           THEN /\ inputs = first.prompt
                /\ inputs = chunks[i]
                /\ DOMAIN params = DOMAIN first.params
                /\ params.max_length = Min(first.params.max_length, 40)
                /\ params.min_length = first.params.min_length
                /\ params.temperature = first.params.temperature
           ELSE /\ params = first.params
                /\ inputs = StrongerInstr \o "\n\n" \o first.prompt
                /\ IsSubstring(chunks[i], inputs)

\* C18 witness: the repair request of a direct-text model, style bullets,
\* in flight
C18_Witness ==
    /\ pc = "http"
    /\ phase = "repair"
    /\ NamesBart(model_id)
    /\ style = "Bullets"
    /\ inputs = chunks[1]
    /\ params = [max_length |-> 40, min_length |-> 15, temperature |-> TEMPERATURE]

\* the call log is in chunk order: a call is followed by the repair call of
\* the same chunk (after a first call), by the first call of the next chunk,
\* or, after the last chunk, by the synthesis call, which is the last
InChunkOrder(log, n) ==
    /\ log # <<>> => log[1] = [phase |-> "first", chunk |-> 1]
    /\ \A a \in 1..(Len(log) - 1) :
          /\ log[a].phase # "synth"
          /\ \/ /\ log[a].phase = "first"
                /\ log[a + 1] = [phase |-> "repair", chunk |-> log[a].chunk]
             \/ /\ log[a].chunk < n
                /\ log[a + 1] = [phase |-> "first", chunk |-> log[a].chunk + 1]
             \/ /\ log[a].chunk = n
                /\ log[a + 1].phase = "synth"

\* the outputs of the modelled endpoint that are not echoes of a chunk
SummaryOutputs == {"Key points only.", "42"}

\* C19: the inference calls of one summarize call are made one after the
\* other in chunk order.  While a call for chunk i is in flight exactly the
\* chunks before i have their partial; the synthesis call is made only when
\* every chunk has its partial; and the k-th partial is the partial of the
\* k-th chunk.
C19_SequentialInChunkOrder ==
    phase \in {"first", "repair", "synth"}
    => /\ InChunkOrder(calls, Len(chunks))
       /\ calls[Len(calls)].phase = phase
       /\ (pc = "http" /\ phase \in {"first", "repair"})
          => /\ calls[Len(calls)].chunk = i
             /\ Len(partials) = i - 1
       /\ phase = "synth" => (Len(chunks) >= 2 /\ Len(partials) = Len(chunks))
       /\ Len(partials) <= Len(chunks)
       /\ \A k \in 1..Len(partials) :
             /\ partials[k] \in SummaryOutputs \cup {Fallback(chunks[k])}
             /\ \E a \in 1..Len(calls) : calls[a] = [phase |-> "first", chunk |-> k]

\* C19 witness: two chunks, each answered by echoes twice, then the
\* synthesis call; the partials are the fallbacks of chunk 1 and chunk 2
C19_Witness ==
    /\ pc = "done"
    /\ Len(chunks) = 2
    /\ Len(calls) = 5
    /\ calls[5].phase = "synth"
    /\ partials = <<Fallback(chunks[1]), Fallback(chunks[2])>>
    /\ partials[1] # partials[2]

(***************************************************************************)
(* summarize: termination (specification Spec)                              *)
(***************************************************************************)
\* at most two inference calls per chunk and one synthesis call, each of at
\* most MAX_RETRIES requests
WithinCallBudget ==
    LET n == Len(chunks)
        CallsFor(k) == {a \in 1..Len(calls) : calls[a].phase # "synth" /\ calls[a].chunk = k}
        SynthCalls == {a \in 1..Len(calls) : calls[a].phase = "synth"}
    IN  /\ n = 0 => calls = <<>>
        /\ n = 1 => Len(calls) <= 2
        /\ n >= 1 => Len(calls) <= 2 * n + 1
        /\ \A k \in 1..n : Cardinality(CallsFor(k)) <= 2
        /\ Cardinality(SynthCalls) <= 1
        /\ requests <= MAX_RETRIES
        /\ Len(attempts) <= requests

\* summarize has returned a str or raised SummarizationError
Ended ==
    /\ pc = "done"
    /\ \/ result.kind = "return" /\ result.type = "str"
       \/ result.kind = "raise" /\ result.type = "SummarizationError"

\* summarize is not stuck: it is about to start, or it has ended, or a
\* requests.post is in flight, which ends with a response or an exception
\* (timeout=60, line 193)
NotStuck ==
    \/ pc = "start"
    \/ Ended
    \/ /\ pc = "http"
       /\ result = NoResult
       /\ (endpoint.statuses # {} \/ endpoint.exceptions # {})

\* the HTTP requests a summarize call of n chunks may still make, plus one
\* while it has not ended: MAX_RETRIES for each of the 2n+1 calls not yet
\* begun and for the call in progress, less the requests of that call
RequestsLeft ==
    CASE pc = "start" ->
           MAX_RETRIES * (2 * Len(chunk_text(text, chunk_chars)) + 1) + 1
      [] pc = "http" ->
           MAX_RETRIES * (2 * Len(chunks) + 1 - Len(calls)) + (MAX_RETRIES - requests) + 1
      [] OTHER -> 0

\* C20: every summarize call ends, returning text or raising
\* SummarizationError, after a bounded amount of work.  It makes at most 2
\* inference calls per chunk and 1 synthesis call (at most 2n+1 for n chunks,
\* at most 2 for one chunk), each of at most MAX_RETRIES requests; it is never
\* stuck, and every step it takes lowers the number of requests left of
\* MAX_RETRIES * (2n+1), which never falls below 0: whatever the endpoint
\* answers, the call ends within that many requests.
C20_TerminatesWithinBudget ==
    /\ [](WithinCallBudget /\ NotStuck /\ RequestsLeft >= 0)
    /\ [][RequestsLeft' < RequestsLeft /\ pc' # "start"]_vars

\* C20 witness: two chunks, five calls, the last of MAX_RETRIES requests
C20_Witness ==
    /\ Ended
    /\ Len(chunks) = 2
    /\ Len(calls) = 2 * Len(chunks) + 1
    /\ requests = MAX_RETRIES
    /\ Len(attempts) = MAX_RETRIES

(***************************************************************************)
(* _chunk_text and summarize together (specification SpecAll)               *)
(***************************************************************************)
\* C21: for every text that passes the empty-input check (it holds a
\* character that is not whitespace) _chunk_text returns at least one chunk
\* and no empty chunk; so every summarize call past that check has chunks,
\* each request for a chunk carries a non-empty chunk, and the synthesis
\* call is made with partials.
C21_ChunksNeverEmpty ==
    HasContent(text)
    => /\ (ChunkTextDone \/ phase \in {"first", "repair", "synth"})
          => /\ chunks # <<>>
             /\ \A k \in 1..Len(chunks) : chunks[k] # ""
       /\ phase \in {"first", "repair"}
          => /\ i \in 1..Len(chunks)
             /\ IsSubstring(chunks[i], inputs)
       /\ phase = "synth"
          => /\ partials # <<>>
             /\ Len(partials) = Len(chunks)

\* C21 witness: blank lines, then one paragraph cut into windows of one
\* character, one of them a space
C21_Witness ==
    /\ ChunkTextDone
    /\ text = " \n\n\n\r\ncdefg h"
    /\ chunk_chars = 1
    /\ chunks = <<"c", "d", "e", "f", "g", " ", "h">>

====
